---- MODULE Spec2Model ----
(***************************************************************************)
(* The cafe breakeven tracker of src/app.py: a Streamlit script that is    *)
(* executed from top to bottom once per user interaction.  The session    *)
(* state (state, sales_history and the price sliders' widget values)       *)
(* survives from one script run to the next; the module-level dict items  *)
(* is rebuilt with its default prices at the start of every run and is    *)
(* overwritten product by product while the control-panel loop runs.      *)
(* st.rerun() ends the current run at once and starts a new one in which  *)
(* no button is pressed; the widgets' values are kept across that restart. *)
(***************************************************************************)
EXTENDS Integers, Sequences, FiniteSets

VARIABLES
    state,          \* st.session_state.state: product -> units sold
    sales_history,  \* st.session_state.sales_history: list of snapshots
    slider,         \* st.session_state["<item>_price"]: the sliders' values
    items,          \* the module-level dict items as the last script run left it
    metrics,        \* the values of the REAL-TIME ANALYTICS panel last rendered
    chart,          \* what create_charts last drew (the cumulative-profit gauge)
    pc              \* "idle": the page is rendered and waits for the user;
                    \* "rerun_sell", "rerun_remove", "rerun_reset": the run was
                    \* ended by st.rerun() at line 217, 221 or 225

vars == <<state, sales_history, slider, items, metrics, chart, pc>>

-----------------------------------------------------------------------------
(* Bounds of the model *)

\* Sell and Remove are disabled once the history holds MaxHistory snapshots.
MaxHistory == 2

-----------------------------------------------------------------------------
(* Cafe parameters *)

\* The keys of items (and of state) in insertion order, which is the order
\* of `for item in items` and of `for item in state`.
ItemKeys == <<"Latte", "Americano", "Cappuccino">>

Products == {ItemKeys[k] : k \in 1..Len(ItemKeys)}

\* The dict items as the top of the script builds it (the display colour is
\* presentation only).
DefaultItems ==
    [i \in Products |->
        CASE i = "Latte"      -> [price |-> 150, variable_cost |-> 50]
          [] i = "Americano"  -> [price |-> 120, variable_cost |-> 40]
          [] i = "Cappuccino" -> [price |-> 180, variable_cost |-> 60]]

fixed_costs == 50000

\* st.slider(..., 50, 300, step=5, ...)
SliderMin == 50
SliderMax == 300
SliderStep == 5

\* The values a slider can deliver: the multiples of the step between the
\* minimum and the maximum.
SliderValues ==
    {v \in SliderMin..SliderMax : (v - SliderMin) % SliderStep = 0}

\* The positions the user tries to give the slider of one product: its two
\* ends and the default, and positions the widget does not offer (off the
\* step, below the minimum, negative, above the maximum).
PriceInputs(item) ==
    {SliderMin, SliderMax,
     DefaultItems[item].price,
     DefaultItems[item].price + 1,
     SliderMin - SliderStep, 0 - SliderStep, SliderMax + SliderStep}

\* {"Latte": 0, "Americano": 0, "Cappuccino": 0}
ZeroState == [i \in Products |-> 0]

-----------------------------------------------------------------------------
(* Helpers *)

\* Python's sum(f(item) for item in <dict>): the terms are added in the
\* dict's key order, starting from 0.
RECURSIVE SumOver(_, _, _)
SumOver(keys, f, k) ==
    IF k = 0 THEN 0 ELSE SumOver(keys, f, k - 1) + f[keys[k]]

PySum(f) == SumOver(ItemKeys, f, Len(ItemKeys))

\* The position of a product in the control-panel loop.
IndexOf(item) == CHOOSE k \in 1..Len(ItemKeys) : ItemKeys[k] = item

\* Variant: the price is written after the loop instead of inside it, so
\* every processed product gets the slider value read last.
ItemsAfterSlidersShared(sl, k) ==
    [i \in Products |->
        IF IndexOf(i) <= k
        THEN [DefaultItems[i] EXCEPT !.price = sl[ItemKeys[k]]]
        ELSE DefaultItems[i]]

\* The dict items once the loop of lines 208-212 has processed the first k
\* products: their price is the slider's value, the others still hold the
\* default the top of the script gave them.
ItemsAfterSliders(sl, k) ==
    [i \in Products |->
        IF IndexOf(i) <= k
        THEN [DefaultItems[i] EXCEPT !.price = sl[i]]
        ELSE DefaultItems[i]]

-----------------------------------------------------------------------------
(* The functions of the script *)

\* The snapshot update_sales computes and stores for the quantities q and
\* the dict itm (lines 85-98).  state.copy() makes the snapshot's quantities a
\* value of their own.
SnapshotOf(q, itm) ==
    LET total_units   == PySum(q)
        revenue       == PySum([i \in Products |-> q[i] * itm[i].price])
        variable_cost == PySum([i \in Products |-> q[i] * itm[i].variable_cost])
        contribution  == revenue - variable_cost
        profit        == contribution - fixed_costs
    IN  [total_units   |-> total_units,
         revenue       |-> revenue,
         variable_cost |-> variable_cost,
         contribution  |-> contribution,
         profit        |-> profit,
         state         |-> q]

\* Variant: remove without the `state[item] > 0` test.
update_sales_unclamped(st, hist, itm, item, action) ==
    LET st2 == IF action = "add"
               THEN [st EXCEPT ![item] = @ + 1]
               ELSE [st EXCEPT ![item] = @ - 1]
    IN  [state |-> st2, sales_history |-> Append(hist, SnapshotOf(st2, itm))]

\* Variant: 'state': state instead of state.copy(), so every snapshot shares
\* the live dict and shows the current quantities.
update_sales_aliased(st, hist, itm, item, action) ==
    LET st2 == IF action = "add"
               THEN [st EXCEPT ![item] = @ + 1]
               ELSE IF action = "remove" /\ st[item] > 0
                    THEN [st EXCEPT ![item] = @ - 1]
                    ELSE st
        shared == [k \in 1..Len(hist) |-> [hist[k] EXCEPT !.state = st2]]
    IN  [state |-> st2, sales_history |-> Append(shared, SnapshotOf(st2, itm))]

\* Variant: the snapshot is taken before the quantity is adjusted.
update_sales_snapshot_before(st, hist, itm, item, action) ==
    LET st2 == IF action = "add"
               THEN [st EXCEPT ![item] = @ + 1]
               ELSE IF action = "remove" /\ st[item] > 0
                    THEN [st EXCEPT ![item] = @ - 1]
                    ELSE st
    IN  [state |-> st2, sales_history |-> Append(hist, SnapshotOf(st, itm))]

\* update_sales(item, action): adjust the quantity, then compute a snapshot
\* from the dict items as it is at the time of the call and append it to the
\* history.  The result is the new session state.
update_sales(st, hist, itm, item, action) ==
    LET st2 == IF action = "add"
               THEN [st EXCEPT ![item] = @ + 1]
               ELSE IF action = "remove" /\ st[item] > 0
                    THEN [st EXCEPT ![item] = @ - 1]
                    ELSE st
    IN  [state |-> st2, sales_history |-> Append(hist, SnapshotOf(st2, itm))]

\* Variant: only the history is cleared.
reset_all_history_only ==
    [state |-> state, sales_history |-> <<>>]

\* reset_all(): the new session state.
reset_all ==
    [state |-> ZeroState, sales_history |-> <<>>]

\* Variant: the profit is taken from the revenue, not from the contribution.
analytics_profit_from_revenue(st, itm) ==
    LET a == SnapshotOf(st, itm)
    IN  [a EXCEPT !.profit = a.revenue - fixed_costs]

\* The REAL-TIME ANALYTICS block: the figures of the metrics panel.
analytics(st, itm) ==
    LET total_units   == PySum(st)
        revenue       == PySum([i \in Products |-> st[i] * itm[i].price])
        variable_cost == PySum([i \in Products |-> st[i] * itm[i].variable_cost])
        contribution  == revenue - variable_cost
        profit        == contribution - fixed_costs
    IN  [total_units   |-> total_units,
         revenue       |-> revenue,
         variable_cost |-> variable_cost,
         contribution  |-> contribution,
         profit        |-> profit,
         state         |-> st]

\* create_charts(): with an empty history only a placeholder is drawn (the
\* early return of line 124); otherwise the line chart shows every
\* snapshot's profit and the gauge is driven by the last of them.
create_charts(hist) ==
    IF hist = <<>>
    THEN [drawn |-> FALSE, cumulative_profits |-> <<>>, current_profit |-> 0]
    ELSE LET cumulative_profits == [k \in 1..Len(hist) |-> hist[k].profit]
         IN  [drawn |-> TRUE,
              cumulative_profits |-> cumulative_profits,
              current_profit |-> cumulative_profits[Len(cumulative_profits)]]

-----------------------------------------------------------------------------
(* The script runs *)

\* Variant: rendering the page records a snapshot as well.
RenderPageRecording(sl) ==
    /\ items' = ItemsAfterSliders(sl, Len(ItemKeys))
    /\ metrics' = SnapshotOf(state, items')
    /\ sales_history' = Append(sales_history, SnapshotOf(state, items'))
    /\ chart' = [drawn |-> TRUE, cumulative_profits |-> <<>>,
                 current_profit |-> metrics'.profit]
    /\ pc' = "idle"
    /\ UNCHANGED state

\* A run in which no button is pressed reaches the end of the script: every
\* slider's value is written into items, then the metrics panel and the
\* charts are rendered from the session state.
RenderPage(sl) ==
    /\ items' = ItemsAfterSliders(sl, Len(ItemKeys))
    /\ metrics' = analytics(state, items')
    /\ chart' = create_charts(sales_history)
    /\ pc' = "idle"
    /\ UNCHANGED <<state, sales_history>>

Init ==
    /\ state = ZeroState
    /\ sales_history = <<>>
    /\ slider = [i \in Products |-> DefaultItems[i].price]
    /\ items = ItemsAfterSliders(slider, Len(ItemKeys))
    /\ metrics = analytics(state, items)
    /\ chart = create_charts(sales_history)
    /\ pc = "idle"

\* Variant: a number input without minimum, maximum or step.
MoveSliderUnchecked(item, v) ==
    /\ pc = "idle"
    /\ v # slider[item]
    /\ slider' = [slider EXCEPT ![item] = v]
    /\ RenderPage(slider')

\* The user moves the price slider of one product: the widget's value
\* changes and the script runs with no button pressed.
MoveSlider(item, v) ==
    /\ pc = "idle"
    /\ v \in SliderValues
    /\ v # slider[item]
    /\ slider' = [slider EXCEPT ![item] = v]
    /\ RenderPage(slider')

\* The user presses "Sell <item>": the run reaches that product's button
\* with the sliders of the products up to it written into items, calls
\* update_sales and ends at st.rerun() (line 217).
SellButton(item) ==
    /\ pc = "idle"
    /\ Len(sales_history) < MaxHistory
    /\ LET itm == ItemsAfterSliders(slider, IndexOf(item))
           r   == update_sales(state, sales_history, itm, item, "add")
       IN  /\ items' = itm
           /\ state' = r.state
           /\ sales_history' = r.sales_history
    /\ pc' = "rerun_sell"
    /\ UNCHANGED <<slider, metrics, chart>>

\* The user presses "Remove <item>" (line 221).
RemoveButton(item) ==
    /\ pc = "idle"
    /\ Len(sales_history) < MaxHistory
    /\ LET itm == ItemsAfterSliders(slider, IndexOf(item))
           r   == update_sales(state, sales_history, itm, item, "remove")
       IN  /\ items' = itm
           /\ state' = r.state
           /\ sales_history' = r.sales_history
    /\ pc' = "rerun_remove"
    /\ UNCHANGED <<slider, metrics, chart>>

\* The user presses "RESET ALL": the whole control-panel loop has run, then
\* reset_all is called and the run ends at st.rerun() (line 225).
ResetButton ==
    /\ pc = "idle"
    /\ items' = ItemsAfterSliders(slider, Len(ItemKeys))
    /\ state' = reset_all.state
    /\ sales_history' = reset_all.sales_history
    /\ pc' = "rerun_reset"
    /\ UNCHANGED <<slider, metrics, chart>>

\* A script run with no widget event: the run st.rerun() asked for, or a
\* rerun of the rendered page.
ScriptRun ==
    /\ slider' = slider
    /\ RenderPage(slider)

Next ==
    \/ \E item \in Products : \E v \in PriceInputs(item) : MoveSlider(item, v)
    \/ \E item \in Products : SellButton(item)
    \/ \E item \in Products : RemoveButton(item)
    \/ ResetButton
    \/ ScriptRun

Spec == Init /\ [][Next]_vars

-----------------------------------------------------------------------------
(* Vocabulary of the properties *)

Last(h) == h[Len(h)]

\* The sums of the claims, written out product by product.
UnitsOf(q) == q["Latte"] + q["Americano"] + q["Cappuccino"]

RevenueOf(q, price) ==
    q["Latte"] * price["Latte"] + q["Americano"] * price["Americano"]
        + q["Cappuccino"] * price["Cappuccino"]

PricesIn(itm) == [i \in Products |-> itm[i].price]

CostsIn(itm) == [i \in Products |-> itm[i].variable_cost]

DefaultPrices == PricesIn(DefaultItems)

\* The four equations for an aggregate a computed from quantities q and the
\* dict itm.
FourEquations(a, q, itm) ==
    /\ a.revenue = RevenueOf(q, PricesIn(itm))
    /\ a.variable_cost = RevenueOf(q, CostsIn(itm))
    /\ a.contribution = a.revenue - a.variable_cost
    /\ a.profit = a.contribution - fixed_costs

\* The run was ended by the st.rerun() that follows update_sales.
JustRecorded == pc \in {"rerun_sell", "rerun_remove"}

-----------------------------------------------------------------------------
(* Properties *)

\* C1: the displayed aggregate and the snapshot just appended satisfy
\* revenue = sum of quantity * price, variable_cost = sum of quantity * unit
\* variable cost, contribution = revenue - variable_cost and
\* profit = contribution - fixed_costs, for the quantities and the prices the
\* computation read; in every stored snapshot the variable cost, the
\* contribution and the profit obey their equations.
C1_AggregateEquations ==
    /\ pc = "idle" => FourEquations(metrics, state, items)
    /\ JustRecorded => FourEquations(Last(sales_history), state, items)
    /\ \A k \in 1..Len(sales_history) :
          /\ sales_history[k].variable_cost =
                 RevenueOf(sales_history[k].state, CostsIn(DefaultItems))
          /\ sales_history[k].contribution =
                 sales_history[k].revenue - sales_history[k].variable_cost
          /\ sales_history[k].profit = sales_history[k].contribution - fixed_costs

\* Two different products are sold, one of them at a price moved off its
\* default, both sales are recorded and the page is rendered.
C1_Witness ==
    /\ pc = "idle"
    /\ Len(sales_history) = 2
    /\ Cardinality({i \in Products : state[i] = 1}) = 2
    /\ \E i \in Products : state[i] = 1 /\ slider[i] # DefaultPrices[i]
    /\ metrics.revenue > 0

\* C2: every quantity sold is >= 0 in every reachable state, and a remove on
\* a product whose quantity is 0 leaves the quantities as they are and runs
\* to its st.rerun() like any other remove.
C2_NeverNegative ==
    /\ [](\A i \in Products : state[i] >= 0)
    /\ [][\A i \in Products :
            (RemoveButton(i) /\ state[i] = 0) =>
                /\ state' = state
                /\ pc' = "rerun_remove"]_vars

\* A remove was pressed with nothing sold: it is the only operation recorded.
C2_Witness ==
    /\ pc = "rerun_remove"
    /\ Len(sales_history) = 1
    /\ state = ZeroState

\* C3: after a reset every quantity is 0 and the history is empty, and the
\* compute that follows yields total units, revenue, variable cost and
\* contribution 0 and profit -fixed_costs, whatever the sliders show.
C3_ResetThenCompute ==
    /\ [](pc = "rerun_reset" => state = ZeroState /\ sales_history = <<>>)
    /\ [][pc = "rerun_reset" =>
            /\ pc' = "idle"
            /\ state' = ZeroState
            /\ metrics' = [total_units   |-> 0,
                           revenue       |-> 0,
                           variable_cost |-> 0,
                           contribution  |-> 0,
                           profit        |-> 0 - fixed_costs,
                           state         |-> ZeroState]]_vars

\* Reset was pressed on a page that showed sales at a moved price.
C3_Witness ==
    /\ pc = "rerun_reset"
    /\ metrics.total_units = 2
    /\ \E i \in Products : metrics.state[i] > 0 /\ slider[i] # DefaultPrices[i]

\* C4: a sell or a remove (also a remove at quantity 0) lengthens the
\* history by exactly one entry and leaves the earlier entries as they were;
\* a slider move and a script run without event leave the history alone;
\* the history only gets shorter by a reset, which empties it and zeroes
\* every quantity.
C4_AppendOnly ==
    [][/\ \A i \in Products :
             (SellButton(i) \/ RemoveButton(i)) =>
                 /\ Len(sales_history') = Len(sales_history) + 1
                 /\ SubSeq(sales_history', 1, Len(sales_history)) = sales_history
       /\ (pc' = "idle") => sales_history' = sales_history
       /\ sales_history' # sales_history =>
             \/ /\ Len(sales_history') = Len(sales_history) + 1
                /\ SubSeq(sales_history', 1, Len(sales_history)) = sales_history
             \/ /\ pc' = "rerun_reset"
                /\ sales_history' = <<>>
                /\ state' = ZeroState]_vars

\* A second snapshot was appended behind a first one with other quantities.
C4_Witness ==
    /\ JustRecorded
    /\ Len(sales_history) = 2
    /\ sales_history[1].state # sales_history[2].state
    /\ sales_history[1].total_units = 1

\* C5: a script run without widget event changes neither the quantities,
\* nor the sliders, nor the history; on a rendered page it also leaves the
\* prices in items and every displayed figure as they were.
C5_ComputeIsPure ==
    [][(pc' = "idle" /\ slider' = slider) =>
          /\ state' = state
          /\ sales_history' = sales_history
          /\ pc = "idle" =>
                /\ metrics' = metrics
                /\ items' = items
                /\ chart' = chart]_vars

\* A rendered page with sales of two products and a moved slider.
C5_Witness ==
    /\ pc = "idle"
    /\ metrics.total_units = 2
    /\ Cardinality({i \in Products : state[i] > 0}) = 2
    /\ Cardinality({i \in Products : slider[i] # DefaultPrices[i]}) = 2

C7_PriceChangeFrame ==
    [][\A i \in Products :
          slider'[i] # slider[i] =>
              /\ items'[i].price = slider'[i]
              /\ \A j \in Products \ {i} :
                    /\ slider'[j] = slider[j]
                    /\ items'[j].price = items[j].price
              /\ \A j \in Products :
                    items'[j].variable_cost = items[j].variable_cost
              /\ state' = state
              /\ sales_history' = sales_history]_vars

\* One slider is off its default on a page with two recorded sales.
C7_Witness ==
    /\ pc = "idle"
    /\ Len(sales_history) = 2
    /\ metrics.total_units = 2
    /\ Cardinality({i \in Products : slider[i] # DefaultPrices[i]}) = 1

\* C8: the snapshot a sell or remove appends has revenue = sum over all
\* products of quantity * the price its slider currently shows.
C8_SnapshotUsesSetPrices ==
    JustRecorded =>
        Last(sales_history).revenue = RevenueOf(state, slider)

\* C9: the last snapshot holds the current quantities and their sum; with an
\* empty history every quantity is 0.
C9_LastSnapshotIsCurrent ==
    /\ sales_history # <<>> =>
          /\ Last(sales_history).state = state
          /\ Last(sales_history).total_units = UnitsOf(state)
    /\ sales_history = <<>> => state = ZeroState

\* Two units are recorded and a slider is off its default.
C9_Witness ==
    /\ Len(sales_history) = 2
    /\ UnitsOf(state) = 2
    /\ \E i \in Products : slider[i] # DefaultPrices[i]
    /\ JustRecorded

\* C10: on the rendered page the profit that drives the gauge (the last
\* snapshot's, or -fixed_costs with an empty history) is the Net Profit of
\* the metrics panel.
C10_GaugeMatchesNetProfit ==
    pc = "idle" =>
        (IF sales_history = <<>> THEN 0 - fixed_costs ELSE chart.current_profit)
            = metrics.profit

====
